---- MODULE Spec2Model ----
(***************************************************************************)
(* Non-adiabatic coupling engine of nac/integrals/nonAdiabaticCoupling.py: *)
(* lookup_cgf, calc_overlap_row, calcOverlapMtx (row map over a process    *)
(* pool), calculate_overlap and calculateCoupling3Points; and the          *)
(* functions of nac/workflows: calculate_overlap (workflow), initialize,   *)
(* guesses_to_compute and split_trajectory.                                *)
(*                                                                         *)
(* Spec: calls of the engine on well-formed trajectories.  SpecInvalid:    *)
(* calls of the engine on malformed trajectories or basis sets.            *)
(* SpecCalls: direct calls of single functions.                            *)
(*                                                                         *)
(* Numbers are integers (exact arithmetic).  A coordinate is one integer,  *)
(* a CGF is a positive integer naming one contracted Gaussian function, a  *)
(* matrix is a sequence of rows.  Python indices are 0-based, sequences    *)
(* here are 1-based: the element at Python index i is element i + 1.       *)
(***************************************************************************)
EXTENDS Integers, Sequences, FiniteSets, TLC

VARIABLES pc, geometries, coefficients, dictCGFs, dt, trans_mtx, dim,
          build, tasks, results, suv_0, suv_1, mtx, ret, err, arg_i, found,
          call

\* The variables of a call of calculateCoupling3Points or lookup_cgf.
coupling_vars ==
    <<pc, geometries, coefficients, dictCGFs, dt, trans_mtx, dim,
      build, tasks, results, suv_0, suv_1, mtx, ret, err, arg_i, found>>

vars == <<pc, geometries, coefficients, dictCGFs, dt, trans_mtx, dim,
          build, tasks, results, suv_0, suv_1, mtx, ret, err, arg_i, found,
          call>>

(***************************************************************************)
(* Bounds of the model.                                                    *)
(***************************************************************************)
MaxAtoms == 2
MaxCGFs == 2
NMO == 2
MaxDt == 1
MaxFrames == 4
MaxEnum == 1

Symbols == {"A", "B"}

\* Python's None (trans_mtx: Matrix=None); no matrix has zero rows.
None == <<>>

(***************************************************************************)
(* Python and numpy primitives.                                            *)
(***************************************************************************)
\* a // b of Python: the floor of a / b, for either sign of b (b # 0).
PyFloorDiv(a, b) == IF b > 0 THEN a \div b ELSE (0 - a) \div (0 - b)

\* xs[idx] of a Python list raises IndexError outside [-len, len).
PyIndexOk(xs, idx) == idx >= 0 - Len(xs) /\ idx < Len(xs)

\* xs[idx] of a Python list: a negative index counts from the end.
PyGet(xs, idx) == IF idx >= 0 THEN xs[idx + 1] ELSE xs[Len(xs) + idx + 1]

\* sum of the first n elements of s
RECURSIVE SumTo(_, _)
SumTo(s, n) == IF n = 0 THEN 0 ELSE s[n] + SumTo(s, n - 1)

SumSeq(s) == SumTo(s, Len(s))

NRows(m) == Len(m)
NCols(m) == Len(m[1])

\* np.transpose of a 2-D array.
Transpose(m) == [c \in 1..NCols(m) |-> [r \in 1..NRows(m) |-> m[r][c]]]

\* np.dot of two 2-D arrays raises ValueError unless the shapes are aligned.
DotOk(a, b) == NCols(a) = NRows(b)

\* The float nan: every sum, difference and product with a nan operand is
\* nan; every other number of the model is finite and smaller than this one.
NaN == 1000000000

\* np.dot of two 2-D arrays with aligned shapes.
Dot(a, b) ==
    [r \in 1..NRows(a) |->
        [c \in 1..NCols(b) |->
            IF \E k \in 1..NCols(a) : a[r][k] = NaN \/ b[k][c] = NaN
            THEN NaN
            ELSE SumSeq([k \in 1..NCols(a) |-> a[r][k] * b[k][c]])]]

\* a - b, a + b and n * a on arrays of equal shape.
MatSub(a, b) ==
    [r \in 1..NRows(a) |-> [c \in 1..NCols(a) |->
        IF a[r][c] = NaN \/ b[r][c] = NaN THEN NaN ELSE a[r][c] - b[r][c]]]
MatAdd(a, b) ==
    [r \in 1..NRows(a) |-> [c \in 1..NCols(a) |->
        IF a[r][c] = NaN \/ b[r][c] = NaN THEN NaN ELSE a[r][c] + b[r][c]]]
MatScale(n, a) ==
    [r \in 1..NRows(a) |-> [c \in 1..NCols(a) |->
        IF a[r][c] = NaN THEN NaN ELSE n * a[r][c]]]

(***************************************************************************)
(* The overlap of two contracted Gaussian functions.  A CGF has an orbital *)
(* type and its primitives, the pair (coefficients, exponents).  The       *)
(* recursion obaraSaikaMultipole and calcOrbType_Components are external.  *)
(***************************************************************************)
\* calcOrbType_Components(l, x): the power of axis x in orbital type l.
calcOrbType_Components(l, x) == IF l = "Px" /\ x = 0 THEN 1 ELSE 0

\* The value prod of line 173 for one primitive pair: a pure function of the
\* two centres, angular momenta and exponents that is unchanged when the two
\* primitives are exchanged and that depends on which primitive sits on
\* which centre.
obaraSaikaProduct(r1, r2, ls1, ls2, e1, e2) ==
    (10 - (r1 - r2) * (r1 - r2))
        + ((e1 + ls1[1]) - (e2 + ls2[1])) * (r1 - r2)

\* sab_unfolded, lines 157-175: math.sqrt raises ValueError on a negative
\* pi / (e1 + e2); a zero exponent sum and a nan operand give a value that
\* is not finite; else c1 * c2 * prod.
sab_unfolded(r1, r2, ls1, ls2, c1, c2, e1, e2) ==
    IF e1 = NaN \/ e2 = NaN
    THEN [err |-> "none", val |-> NaN]
    ELSE IF e1 + e2 < 0
    THEN [err |-> "ValueError", val |-> 0]
    ELSE IF e1 + e2 = 0 \/ c1 = NaN \/ c2 = NaN
    THEN [err |-> "none", val |-> NaN]
    ELSE [err |-> "none",
          val |-> c1 * c2 * obaraSaikaProduct(r1, r2, ls1, ls2, e1, e2)]

\* apply_contraction, lines 140-154: np.stack([csi, csj, esi, esj]) raises
\* ValueError unless the four arrays have one length; primitive k of the one
\* function is paired with primitive k of the other, and np.sum adds the
\* values of the pairs.
apply_contraction(xyz_0, xyz_1, li, lj, ps_i, ps_j) ==
    IF Len(ps_i) # 2 \/ Len(ps_j) # 2
    THEN [err |-> "ValueError", val |-> 0]
    ELSE IF \/ Len(ps_i[1]) # Len(ps_j[1])
            \/ Len(ps_i[2]) # Len(ps_i[1])
            \/ Len(ps_j[2]) # Len(ps_i[1])
            \/ Len(ps_i[1]) = 0
    THEN [err |-> "ValueError", val |-> 0]
    ELSE LET ls_i == [x \in 1..3 |-> calcOrbType_Components(li, x - 1)]
             ls_j == [x \in 1..3 |-> calcOrbType_Components(lj, x - 1)]
         IN  \* the values of the primitive pairs, evaluated once
             CHOOSE r \in
                 {IF \E k \in 1..Len(ts) : ts[k].err # "none"
                  THEN [err |-> "ValueError", val |-> 0]
                  ELSE IF \E k \in 1..Len(ts) : ts[k].val = NaN
                  THEN [err |-> "none", val |-> NaN]
                  ELSE [err |-> "none",
                        val |-> SumSeq([k \in 1..Len(ts) |-> ts[k].val])] :
                    ts \in {[k \in 1..Len(ps_i[1]) |->
                               sab_unfolded(xyz_0, xyz_1, ls_i, ls_j,
                                            ps_i[1][k], ps_j[1][k],
                                            ps_i[2][k], ps_j[2][k])]}} : TRUE

\* Overlap between CGF_i of atom0 and all the CGFs of atom1; an exception of
\* apply_contraction ends the loop.
calc_overlap_atom(xyz_0, cgf_i, xyz_1, cgfs_atom_j) ==
    CHOOSE r \in
        {IF \E j \in 1..Len(rs) : rs[j].err # "none"
         THEN [err |-> "ValueError", val |-> <<>>]
         ELSE [err |-> "none", val |-> [j \in 1..Len(rs) |-> rs[j].val]] :
            rs \in {[j \in 1..Len(cgfs_atom_j) |->
                       apply_contraction(xyz_0, xyz_1, cgf_i.orbType,
                                         cgfs_atom_j[j].orbType,
                                         cgf_i.primitives,
                                         cgfs_atom_j[j].primitives)]}} : TRUE

(***************************************************************************)
(* lookup_cgf: the (coordinate, CGF) pair of global index i.               *)
(***************************************************************************)
Raise(e) == [err |-> e, xyz |-> 0, cgf |-> 0]
Return(xyz, cgf) == [err |-> "none", xyz |-> xyz, cgf |-> cgf]

\* The for loop of lookup_cgf from atom k on, acc CGFs counted so far.
RECURSIVE lookup_loop(_, _, _, _, _)
lookup_loop(atoms, cgfs, i, k, acc) ==
    IF k > Len(atoms)
    THEN [err |-> "UnboundLocalError", index |-> 0, xyz |-> 0]
    ELSE IF atoms[k].symbol \notin DOMAIN cgfs
    THEN [err |-> "KeyError", index |-> 0, xyz |-> 0]
    ELSE LET length == Len(cgfs[atoms[k].symbol])
             acc1 == acc + length
             n == PyFloorDiv(acc1 - 1, i)
         IN  IF n # 0
             THEN [err |-> "none", index |-> length - (acc1 - i),
                   xyz |-> atoms[k].xyz]
             ELSE lookup_loop(atoms, cgfs, i, k + 1, acc1)

lookup_cgf(atoms, cgfs, i) ==
    IF Len(atoms) = 0
    THEN Raise(IF i = 0 THEN "IndexError" ELSE "UnboundLocalError")
    ELSE IF atoms[1].symbol \notin DOMAIN cgfs
    THEN Raise("KeyError")
    ELSE LET first == cgfs[atoms[1].symbol]
         IN  IF i = 0
             THEN IF PyIndexOk(first, 0)
                  THEN Return(atoms[1].xyz, PyGet(first, 0))
                  ELSE Raise("IndexError")
             ELSE LET r == lookup_loop(atoms, cgfs, i, 1, 0)
                  IN  IF r.err # "none" THEN Raise(r.err)
                      ELSE IF PyIndexOk(first, r.index)
                      THEN Return(r.xyz, PyGet(first, r.index))
                      ELSE Raise("IndexError")

(***************************************************************************)
(* calc_overlap_row: one row of the overlap matrix.                        *)
(***************************************************************************)
Min(a, b) == IF a < b THEN a ELSE b

\* row[acc: acc + nContracted] = vs on a numpy array of length dim: the slice
\* is clipped to the array, a one-element vs is broadcast to the slice, any
\* other length mismatch raises ValueError.
SliceOk(dim_, acc, vs) ==
    LET m == Min(acc + Len(vs), dim_) - Min(acc, dim_)
    IN  m = Len(vs) \/ Len(vs) = 1

SliceAssign(row, acc, vs) ==
    LET lo == Min(acc, Len(row))
        hi == Min(acc + Len(vs), Len(row))
    IN  [c \in 1..Len(row) |->
            IF c > lo /\ c <= hi
            THEN (IF Len(vs) = 1 THEN vs[1] ELSE vs[c - lo])
            ELSE row[c]]

\* Slip: an atom whose symbol has no basis is skipped (dictCGFs.get(s, [])).
RECURSIVE row_loop_skipping(_, _, _, _, _, _, _)
row_loop_skipping(cgfs, mol1, xyz_0, cgf_i, k, acc, row) ==
    IF k > Len(mol1)
    THEN [err |-> "none", row |-> row]
    ELSE IF mol1[k].symbol \notin DOMAIN cgfs
    THEN row_loop_skipping(cgfs, mol1, xyz_0, cgf_i, k + 1, acc, row)
    ELSE LET cgfs_atom_j == cgfs[mol1[k].symbol]
             nContracted == Len(cgfs_atom_j)
             rs == calc_overlap_atom(xyz_0, cgf_i, mol1[k].xyz, cgfs_atom_j)
             vs == rs.val
         IN  IF rs.err # "none"
             THEN [err |-> rs.err, row |-> row]
             ELSE IF SliceOk(Len(row), acc, vs)
             THEN row_loop_skipping(cgfs, mol1, xyz_0, cgf_i, k + 1,
                                    acc + nContracted,
                                    SliceAssign(row, acc, vs))
             ELSE [err |-> "ValueError", row |-> row]

\* The for loop of calc_overlap_row from atom k of mol1 on.
RECURSIVE row_loop(_, _, _, _, _, _, _)
row_loop(cgfs, mol1, xyz_0, cgf_i, k, acc, row) ==
    IF k > Len(mol1)
    THEN [err |-> "none", row |-> row]
    ELSE IF mol1[k].symbol \notin DOMAIN cgfs
    THEN [err |-> "KeyError", row |-> row]
    ELSE LET cgfs_atom_j == cgfs[mol1[k].symbol]
             nContracted == Len(cgfs_atom_j)
             rs == calc_overlap_atom(xyz_0, cgf_i, mol1[k].xyz, cgfs_atom_j)
             vs == rs.val
         IN  IF rs.err # "none"
             THEN [err |-> rs.err, row |-> row]
             ELSE IF SliceOk(Len(row), acc, vs)
             THEN row_loop(cgfs, mol1, xyz_0, cgf_i, k + 1, acc + nContracted,
                           SliceAssign(row, acc, vs))
             ELSE [err |-> "ValueError", row |-> row]

\* np.empty(dim) leaves the row uninitialised: every entry starts as the
\* arbitrary value `garbage` and keeps it unless the loop assigns it.
calc_overlap_row(cgfs, mol1, dim_, xyz_0, cgf_i, garbage) ==
    row_loop(cgfs, mol1, xyz_0, cgf_i, 1, 0, [c \in 1..dim_ |-> garbage])

\* apply_nested(fun_overlap, fun_lookup, i) = fun_overlap(*fun_lookup(i)):
\* the task of row i, with rows looked up in mol0 and columns built from mol1.
apply_nested(cgfs, mol0, mol1, dim_, i, garbage) ==
    LET g == lookup_cgf(mol0, cgfs, i)
    IN  IF g.err # "none"
        THEN [err |-> g.err, row |-> <<>>]
        ELSE calc_overlap_row(cgfs, mol1, dim_, g.xyz, g.cgf, garbage)

(***************************************************************************)
(* calcOverlapMtx after the map: np.stack and the optional transformation  *)
(* to sphericals.                                                          *)
(***************************************************************************)
Sphericals(t, suv) ==
    IF t # None
    THEN LET transpose == Transpose(t)
         IN  IF DotOk(suv, transpose) /\ NCols(t) = NRows(suv)
             THEN [err |-> "none", val |-> Dot(t, Dot(suv, transpose))]
             ELSE [err |-> "ValueError", val |-> <<>>]
    ELSE [err |-> "none", val |-> suv]

(***************************************************************************)
(* calculate_overlap: the overlap between molecular orbitals at two times. *)
(***************************************************************************)
\* Slip: the overlap matrix is used transposed.
calculate_overlap_transposed(suv, css0, css1) ==
    LET css0T == Transpose(css0)
    IN  IF DotOk(suv, css1) /\ NCols(css0T) = NRows(suv)
        THEN [err |-> "none", val |-> Dot(css0T, Dot(Transpose(suv), css1))]
        ELSE [err |-> "ValueError", val |-> <<>>]

\* Slip: the left coefficient matrix is not transposed.
calculate_overlap_untransposed(suv, css0, css1) ==
    IF DotOk(suv, css1) /\ NCols(css0) = NRows(suv)
    THEN [err |-> "none", val |-> Dot(css0, Dot(suv, css1))]
    ELSE [err |-> "ValueError", val |-> <<>>]

calculate_overlap(suv, css0, css1) ==
    LET css0T == Transpose(css0)
    IN  IF DotOk(suv, css1) /\ NCols(css0T) = NRows(suv)
        THEN [err |-> "none", val |-> Dot(css0T, Dot(suv, css1))]
        ELSE [err |-> "ValueError", val |-> <<>>]

\* Slip: the two t0 projections are added instead of subtracted.
Combination_added(sji_t0, sji_t1, sij_t0, sij_t1) ==
    MatAdd(MatScale(3, MatSub(sji_t1, sij_t1)), MatAdd(sij_t0, sji_t0))

\* Line 62 without the factor cte: 3 * (sji_t1 - sij_t1) + (sij_t0 - sji_t0).
Combination(sji_t0, sji_t1, sij_t0, sij_t1) ==
    MatAdd(MatScale(3, MatSub(sji_t1, sij_t1)), MatSub(sij_t0, sji_t0))

\* The result list of Pool.map: the row of task i is element i of the list.
StoreResult(xss, i, row) == [xss EXCEPT ![i + 1] = row]

\* coordinates_to_numpy: the atom rebuilt with its coordinates as an array.
coordinates_to_numpy(atom) == [symbol |-> atom.symbol, xyz |-> atom.xyz]

\* dim of calculateCoupling3Points: the CGFs of the atoms of mol0.
DimOf(cgfs, mol) == SumSeq([k \in 1..Len(mol) |-> Len(cgfs[mol[k].symbol])])

(***************************************************************************)
(* Inputs.                                                                 *)
(***************************************************************************)
\* Values an uninitialised entry of np.empty may hold.
Uninit == {0, 1}

\* Atom-symbol sequences of the molecules.
SymbolSeqs == UNION {[1..n -> Symbols] : n \in 1..MaxAtoms}

\* The CGF number n: an S or a Px function of two primitives, with
\* coefficients and exponents of its own.
MakeCGF(n) ==
    [orbType |-> IF n % 2 = 1 THEN "S" ELSE "Px",
     primitives |-> << <<1, n>>, <<n, 1>> >>]

\* The basis of one symbol: the n CGFs number off + 1 .. off + n.
Shell(off, n) == [k \in 1..n |-> MakeCGF(off + k)]

\* Basis sets: symbol B has the same functions as A (off = 0) or its own, and
\* the two symbols have any numbers of CGFs.
BasisSets ==
    {[s \in Symbols |-> IF s = "A" THEN Shell(0, nA) ELSE Shell(off, nB)] :
        nA \in 1..MaxCGFs, nB \in 1..MaxCGFs, off \in {0, MaxCGFs}}

\* Displacement of the first atom per frame (0: the molecule is at rest).
Velocities == {0, 1}

\* Three consecutive frames: atom k starts at k, the first atom moves vel
\* per frame.
Trajectory(syms, vel) ==
    [t \in 1..3 |->
        [k \in 1..Len(syms) |->
            [symbol |-> syms[k],
             xyz |-> IF k = 1 THEN k + (t - 1) * vel ELSE k]]]

\* The coefficient matrices of the three frames: the orbitals are the same in
\* every frame (rot = 0) or move on by one basis function per frame, and
\* frame `bad` (0: none) has one row too many.
CoefCases ==
    {c \in [rot : {0, 1}, bad : 0..3] : c.rot = 0 \/ c.bad = 0}

\* MO coefficients with r rows: orbital k is basis function k + s (cyclic).
Coef(r, s) ==
    [u \in 1..r |-> [k \in 1..NMO |-> IF ((k + s - 1) % r) + 1 = u THEN 1 ELSE 0]]

\* A Cartesian-to-spherical transformation with one row less than columns.
TransOf(d) ==
    [r \in 1..(d - 1) |-> [c \in 1..d |-> IF c = r \/ c = r + 1 THEN 1 ELSE 0]]

TransSet(d) == IF d >= 2 THEN {None, TransOf(d)} ELSE {None}

\* range(dim)
Range(d) == [k \in 1..d |-> k - 1]

NoCoupling == [num |-> <<>>, den |-> 0]

\* No function of the workflows has been called.
NoCall == [fn |-> "none"]

(***************************************************************************)
(* State machine.                                                          *)
(***************************************************************************)
Init ==
    /\ pc = "idle"
    /\ geometries = <<>>
    /\ coefficients = <<>>
    /\ dictCGFs = <<>>
    /\ dt = 0
    /\ trans_mtx = None
    /\ dim = 0
    /\ build = 0
    /\ tasks = <<>>
    /\ results = <<>>
    /\ suv_0 = <<>>
    /\ suv_1 = <<>>
    /\ mtx = <<>>
    /\ ret = NoCoupling
    /\ err = "none"
    /\ arg_i = 0
    /\ found = Return(0, 0)
    /\ call = NoCall

\* A direct call lookup_cgf(atoms, dictCGFs, i).
CallLookup ==
    /\ pc = "idle"
    /\ \E syms \in SymbolSeqs, cgfs \in BasisSets :
         LET atoms == Trajectory(syms, 0)[1]
             d == DimOf(cgfs, atoms)
         IN  \E i \in (0 - (d + 1))..(d + 1) :
               /\ geometries' = <<atoms>>
               /\ dictCGFs' = cgfs
               /\ arg_i' = i
               /\ found' = lookup_cgf(atoms, cgfs, i)
    /\ pc' = "lookup_done"
    /\ UNCHANGED <<coefficients, dt, trans_mtx, dim, build, tasks, results,
                   suv_0, suv_1, mtx, ret, err>>
    /\ UNCHANGED call

\* calculateCoupling3Points, lines 42-51: the arguments, dim, and the first
\* calcOverlapMtx handing range(dim) to the pool.
CallCoupling ==
    /\ pc = "idle"
    /\ \E syms \in SymbolSeqs, cgfs \in BasisSets, d \in (0 - 1)..MaxDt :
         \E vel \in Velocities :
           LET geoms == [f \in 1..3 |->
                            [k \in 1..Len(syms) |->
                                coordinates_to_numpy(Trajectory(syms, vel)[f][k])]]
               n == DimOf(cgfs, geoms[1])
           IN  \E t \in TransSet(n), c \in CoefCases :
                 LET rows == IF t = None THEN n ELSE NRows(t)
                 IN  /\ geometries' = geoms
                     /\ dictCGFs' = cgfs
                     /\ dt' = d
                     /\ trans_mtx' = t
                     /\ coefficients' =
                          [f \in 1..3 |->
                             Coef(IF c.bad = f THEN rows + 1 ELSE rows,
                                  (f - 1) * c.rot)]
                     /\ dim' = n
                     /\ tasks' = Range(n)
                     /\ results' = [k \in 1..n |-> <<>>]
    /\ build' = 0
    /\ pc' = "map"
    /\ UNCHANGED <<suv_0, suv_1, mtx, ret, err, arg_i, found>>
    /\ UNCHANGED call

\* Pool(processes=1).map: the worker takes the next index of range(dim),
\* runs apply_nested on it and stores the row at that index of the result
\* list; an exception in the task is re-raised by map.
PoolWorker ==
    /\ pc = "map"
    /\ tasks # <<>>
    /\ \E garbage \in Uninit :
         \E r \in {apply_nested(dictCGFs, geometries[build + 1],
                                geometries[build + 2], dim, Head(tasks),
                                garbage)} :
             IF r.err # "none"
             THEN /\ pc' = "raised"
                  /\ err' = r.err
                  /\ UNCHANGED <<tasks, results>>
             ELSE /\ results' = StoreResult(results, Head(tasks), r.row)
                  /\ tasks' = Tail(tasks)
                  /\ UNCHANGED <<pc, err>>
    /\ UNCHANGED <<geometries, coefficients, dictCGFs, dt, trans_mtx, dim,
                   build, suv_0, suv_1, mtx, ret, arg_i, found>>
    /\ UNCHANGED call

\* calcOverlapMtx, lines 88-96, once map has every row: np.stack and the
\* transformation; then the caller goes on (lines 52-55) with the second
\* calcOverlapMtx or with the projections.
OverlapReturn ==
    /\ pc = "map"
    /\ tasks = <<>>
    /\ \E s \in {Sphericals(trans_mtx, results)} :
           IF s.err # "none"
           THEN /\ pc' = "raised"
                /\ err' = s.err
                /\ UNCHANGED <<build, tasks, results, suv_0, suv_1>>
           ELSE IF build = 0
           THEN /\ suv_0' = s.val
                /\ build' = 1
                /\ tasks' = Range(dim)
                /\ results' = [k \in 1..dim |-> <<>>]
                /\ UNCHANGED <<pc, err, suv_1>>
           ELSE /\ suv_1' = s.val
                /\ pc' = "project"
                /\ UNCHANGED <<build, tasks, results, suv_0, err>>
    /\ UNCHANGED <<geometries, coefficients, dictCGFs, dt, trans_mtx, dim,
                   mtx, ret, arg_i, found>>
    /\ UNCHANGED call

\* calculateCoupling3Points, lines 56-59: the four projections.
Project ==
    /\ pc = "project"
    /\ LET css0 == coefficients[1]
           css1 == coefficients[2]
           css2 == coefficients[3]
           suv_0_t == Transpose(suv_0)
           suv_1_t == Transpose(suv_1)
       IN  \E mtx_sji_t0 \in {calculate_overlap(suv_0, css0, css1)},
              mtx_sji_t1 \in {calculate_overlap(suv_1, css1, css2)},
              mtx_sij_t0 \in {calculate_overlap(suv_0_t, css1, css0)},
              mtx_sij_t1 \in {calculate_overlap(suv_1_t, css2, css1)} :
             LET all == <<mtx_sji_t0, mtx_sji_t1, mtx_sij_t0, mtx_sij_t1>>
             IN  IF \E k \in 1..4 : all[k].err # "none"
                 THEN /\ pc' = "raised"
                      /\ err' = "ValueError"
                      /\ UNCHANGED mtx
                 ELSE /\ mtx' = [k \in 1..4 |-> all[k].val]
                      /\ pc' = "combine"
                      /\ UNCHANGED err
    /\ UNCHANGED <<geometries, coefficients, dictCGFs, dt, trans_mtx, dim,
                   build, tasks, results, suv_0, suv_1, ret, arg_i, found>>
    /\ UNCHANGED call

\* calculateCoupling3Points, lines 60-62: cte = 1.0 / (4.0 * dt) and the
\* returned matrix cte * (...), kept as numerator matrix over denominator.
Combine ==
    /\ pc = "combine"
    /\ IF dt = 0
       THEN /\ pc' = "raised"
            /\ err' = "ZeroDivisionError"
            /\ UNCHANGED ret
       ELSE /\ ret' = [num |-> Combination(mtx[1], mtx[2], mtx[3], mtx[4]),
                       den |-> 4 * dt]
            /\ pc' = "returned"
            /\ UNCHANGED err
    /\ UNCHANGED <<geometries, coefficients, dictCGFs, dt, trans_mtx, dim,
                   build, tasks, results, suv_0, suv_1, mtx, arg_i, found>>
    /\ UNCHANGED call

Next ==
    \/ CallLookup
    \/ CallCoupling
    \/ PoolWorker
    \/ OverlapReturn
    \/ Project
    \/ Combine

Spec == Init /\ [][Next]_vars

(***************************************************************************)
(* Calls of calculateCoupling3Points with arguments outside its contract:  *)
(* one geometry names an element that has no basis, or the second geometry *)
(* has one atom less or one atom more than the first, or the basis of one  *)
(* element has a function whose primitive overlaps are not finite or whose *)
(* number of primitives differs from the others'.                          *)
(***************************************************************************)
\* An element symbol that is not a key of the basis-set mapping.
Unknown == "X"

\* for at in mol: dictCGFs[at.symbol] finds every key.
KnownSymbols(cgfs, mol) ==
    \A k \in 1..Len(mol) : mol[k].symbol \in DOMAIN cgfs

\* The ways a trajectory of the symbols syms is made invalid.
Defects(syms) ==
    {[kind |-> "unknown", frame |-> f, atom |-> k] :
        f \in 1..3, k \in 1..Len(syms)}
    \cup {[kind |-> "short", frame |-> 2, atom |-> k] :
            k \in {Len(syms)} \ {1}}
    \cup {[kind |-> "long", frame |-> 2, atom |-> k] : k \in 1..Len(syms)}
    \cup {[kind |-> "nonfinite", frame |-> 0, atom |-> k] : k \in 1..Len(syms)}
    \cup {[kind |-> "ragged", frame |-> 0, atom |-> 1]}

\* The trajectory with defect x: atom x.atom of frame x.frame is of the
\* unknown element, or the frame lacks its last atom, or it has a copy of
\* atom x.atom as one more atom at the end.
Defective(geoms, x) ==
    [f \in 1..3 |->
        IF f # x.frame THEN geoms[f]
        ELSE IF x.kind = "unknown"
        THEN [geoms[f] EXCEPT ![x.atom].symbol = Unknown]
        ELSE IF x.kind = "short"
        THEN SubSeq(geoms[f], 1, Len(geoms[f]) - 1)
        ELSE Append(geoms[f], [symbol |-> geoms[f][x.atom].symbol,
                               xyz |-> Len(geoms[f]) + 1])]

\* The basis sets in which each symbol has functions of its own.
OwnBasisSets == {cgfs \in BasisSets : cgfs["B"][1] # cgfs["A"][1]}

\* A CGF with a coefficient that is nan: its primitive overlaps are not
\* finite.
NonFiniteCGF ==
    [orbType |-> "S", primitives |-> << <<NaN, 1>>, <<1, 1>> >>]

\* A CGF of one primitive, where the others have two.
RaggedCGF == [orbType |-> "S", primitives |-> << <<1>>, <<1>> >>]

\* The basis set with defect x: the first function of the element of atom
\* x.atom is the one without finite overlaps.
DefectiveBasis(cgfs, syms, x) ==
    IF x.kind = "nonfinite"
    THEN [cgfs EXCEPT ![syms[x.atom]][1] = NonFiniteCGF]
    ELSE IF x.kind = "ragged"
    THEN [cgfs EXCEPT ![syms[x.atom]][1] = RaggedCGF]
    ELSE cgfs

\* calculateCoupling3Points, lines 42-51, on an invalid trajectory: line 49
\* raises KeyError when mol0 has an atom of an unknown element.
CallCouplingInvalid ==
    /\ pc = "idle"
    /\ \E syms \in SymbolSeqs, cgfs \in OwnBasisSets, vel \in {1} :
         \E x \in Defects(syms),
            t \in TransSet(DimOf(cgfs, Trajectory(syms, vel)[1])) :
           LET geoms == Defective(
                            [f \in 1..3 |->
                                [k \in 1..Len(syms) |->
                                    coordinates_to_numpy(
                                        Trajectory(syms, vel)[f][k])]], x)
               rows == IF t = None
                       THEN DimOf(cgfs, Trajectory(syms, vel)[1])
                       ELSE NRows(t)
           IN  /\ geometries' = geoms
               /\ dictCGFs' = DefectiveBasis(cgfs, syms, x)
               /\ dt' = 1
               /\ trans_mtx' = t
               /\ coefficients' = [f \in 1..3 |-> Coef(rows, 0)]
               /\ IF KnownSymbols(cgfs, geoms[1])
                  THEN /\ dim' = DimOf(cgfs, geoms[1])
                       /\ tasks' = Range(dim')
                       /\ results' = [k \in 1..dim' |-> <<>>]
                       /\ pc' = "map"
                       /\ UNCHANGED err
                  ELSE /\ pc' = "raised"
                       /\ err' = "KeyError"
                       /\ UNCHANGED <<dim, tasks, results>>
    /\ build' = 0
    /\ UNCHANGED <<suv_0, suv_1, mtx, ret, arg_i, found>>
    /\ UNCHANGED call

NextInvalid ==
    \/ CallCouplingInvalid
    \/ PoolWorker
    \/ OverlapReturn
    \/ Project
    \/ Combine

SpecInvalid == Init /\ [][NextInvalid]_vars

(***************************************************************************)
(* Direct calls of single functions: calculate_overlap of the integrals    *)
(* module and the functions of nac/workflows.  A call is one step: `call`  *)
(* records the function, its arguments and what it returned or raised.     *)
(***************************************************************************)
Identity(n) == [r \in 1..n |-> [c \in 1..n |-> IF r = c THEN 1 ELSE 0]]

\* The identity with one more entry e at row 1, column 2; Shear(n, e) and
\* Shear(n, -e) are inverse to each other.
Shear(n, e) ==
    [r \in 1..n |-> [c \in 1..n |->
        IF r = c THEN 1 ELSE IF r = 1 /\ c = 2 THEN e ELSE 0]]

\* MO coefficient matrices: orbitals that are basis functions (permuted,
\* with either sign) or sheared combinations of them.
Orbitals ==
    {Coef(NMO, s) : s \in 0..(NMO - 1)}
    \cup {MatScale(0 - 1, Coef(NMO, s)) : s \in 0..(NMO - 1)}
    \cup {Shear(NMO, e) : e \in {0 - 1, 1}}

\* Atomic-orbital overlap matrices: any 0/1 matrix (symmetric or not) and
\* the metrics in which the sheared orbitals are orthonormal.
Overlaps ==
    [1..NMO -> [1..NMO -> {0, 1}]]
    \cup {Dot(Transpose(Shear(NMO, e)), Shear(NMO, e)) : e \in {0 - 1, 1}}

\* A direct call calculate_overlap(suv, css0, css1), lines 65-71.
CallCalculateOverlap ==
    /\ pc = "idle"
    /\ call = NoCall
    /\ \E suv \in Overlaps, css0 \in Orbitals, css1 \in Orbitals :
         \E r \in {calculate_overlap(suv, css0, css1)} :
            call' = [fn |-> "calculate_overlap",
                     args |-> [suv |-> suv, css0 |-> css0, css1 |-> css1],
                     err |-> r.err,
                     ret |-> r.val]
    /\ UNCHANGED coupling_vars

(***************************************************************************)
(* calculate_overlap of nac/workflows/workflow_coupling.py (here           *)
(* workflow_calculate_overlap): one entry per pair of consecutive          *)
(* geometries, either the paths of the matrices already in the HDF5 file   *)
(* or the promise of lazy_overlaps.  The HDF5 file is the set of the paths *)
(* it holds; a geometry is the number of its frame.                        *)
(***************************************************************************)
names_matrices == <<"mtx_sji_t0", "mtx_sij_t0">>

\* Slip: the folder is numbered by i alone.
OverlapRoot_unshifted(i, enumerate_from) ==
    <<"project_name", "overlaps", i>>

\* root = join(project_name, 'overlaps_{}'.format(i + enumerate_from))
OverlapRoot(i, enumerate_from) ==
    <<"project_name", "overlaps", i + enumerate_from>>

\* overlaps_paths_hdf5 = [join(root, name) for name in names_matrices]
OverlapPaths(root) ==
    [n \in 1..Len(names_matrices) |-> Append(root, names_matrices[n])]

\* search_data_in_hdf5(path_hdf5, xs): every path of xs is in the file.
search_data_in_hdf5(stored, xs) == \A n \in 1..Len(xs) : xs[n] \in stored

\* The promise that lazy_overlaps(i, ..., molecules, ...) schedules.
lazy_overlaps(i, molecules, enumerate_from) ==
    [kind |-> "promise", i |-> i, molecules |-> molecules,
     enumerate_from |-> enumerate_from]

\* The for loop of calculate_overlap from index i on.
RECURSIVE overlap_loop(_, _, _, _, _)
overlap_loop(stored, geoms, enumerate_from, i, paths_overlaps) ==
    IF i >= Len(geoms) - 1
    THEN paths_overlaps
    ELSE LET molecules == <<geoms[i + 1], geoms[i + 2]>>
             root == OverlapRoot(i, enumerate_from)
             overlaps_paths_hdf5 == OverlapPaths(root)
         IN  overlap_loop(stored, geoms, enumerate_from, i + 1,
                 Append(paths_overlaps,
                     IF search_data_in_hdf5(stored, overlaps_paths_hdf5)
                     THEN [kind |-> "paths", paths |-> overlaps_paths_hdf5]
                     ELSE lazy_overlaps(i, molecules, enumerate_from)))

workflow_calculate_overlap(stored, geoms, enumerate_from) ==
    overlap_loop(stored, geoms, enumerate_from, 0, <<>>)

\* The paths an HDF5 file may hold when n geometries are processed.
StorablePaths(n) ==
    {Append(<<"project_name", "overlaps", k>>, names_matrices[m]) :
        k \in 0..(n - 2 + MaxEnum), m \in 1..Len(names_matrices)}

\* A call of the workflow calculate_overlap on a trajectory of n frames.
CallWorkflowOverlap ==
    /\ pc = "idle"
    /\ call = NoCall
    /\ \E n \in 1..MaxFrames, enumerate_from \in 0..MaxEnum :
         \E stored \in SUBSET StorablePaths(n) :
            LET geoms == [k \in 1..n |-> k - 1]
            IN  call' = [fn |-> "workflow_calculate_overlap",
                         args |-> [geometries |-> geoms,
                                   enumerate_from |-> enumerate_from,
                                   stored |-> stored],
                         err |-> "none",
                         ret |-> workflow_calculate_overlap(
                                     stored, geoms, enumerate_from)]
    /\ UNCHANGED coupling_vars

(***************************************************************************)
(* nac/workflows/initialization.py.  A Python value that may be None is a  *)
(* record with its type; a string is the sequence of its characters, a     *)
(* file-system path the sequence of its components.                        *)
(***************************************************************************)
PyNone == [type |-> "NoneType"]
PyStr(chars) == [type |-> "str", chars |-> chars]
Path(parts) == [type |-> "str", parts |-> parts]

\* os.path.join(path, name)
join(path, name) == Path(Append(path.parts, name))

UpperCase ==
    <<"A", "B", "C", "D", "E", "F", "G", "H", "I", "J", "K", "L", "M",
      "N", "O", "P", "Q", "R", "S", "T", "U", "V", "W", "X", "Y", "Z">>
LowerCase ==
    <<"a", "b", "c", "d", "e", "f", "g", "h", "i", "j", "k", "l", "m",
      "n", "o", "p", "q", "r", "s", "t", "u", "v", "w", "x", "y", "z">>

\* str.lower(): each upper-case letter becomes its lower-case letter.
str_lower(chars) ==
    [k \in 1..Len(chars) |->
        IF \E u \in 1..Len(UpperCase) : UpperCase[u] = chars[k]
        THEN LowerCase[CHOOSE u \in 1..Len(UpperCase) : UpperCase[u] = chars[k]]
        ELSE chars[k]]

\* a in b of two Python strings: a occurs in b as a substring.
str_in(a, b) ==
    \E off \in 0..(Len(b) - Len(a)) :
        \A k \in 1..Len(a) : b[off + k] = a[k]

\* guesses_to_compute, lines 94-109; points_guess is bound by no branch when
\* the string is in neither 'first' nor 'all'.
guesses_to_compute(calculate_guesses, enumerate_from, len_geometries) ==
    IF calculate_guesses = PyNone
    THEN [err |-> "none", val |-> <<>>]
    ELSE IF str_in(str_lower(calculate_guesses.chars),
                   <<"f", "i", "r", "s", "t">>)
    THEN [err |-> "none", val |-> <<enumerate_from>>]
    ELSE IF str_in(str_lower(calculate_guesses.chars), <<"a", "l", "l">>)
    THEN [err |-> "none",
          val |-> [i \in 1..len_geometries |-> enumerate_from + (i - 1)]]
    ELSE [err |-> "UnboundLocalError", val |-> <<>>]

\* Values of the configuration key calculate_guesses.
GuessInputs ==
    {PyNone}
    \cup {PyStr(w) : w \in
            {<<"f", "i", "r", "s", "t">>, <<"F", "I", "R", "S", "T">>,
             <<"F", "i", "r", "s", "t">>, <<"a", "l", "l">>,
             <<"A", "L", "L">>, <<"A", "l", "l">>, <<>>, <<"f">>,
             <<"i", "r", "s">>, <<"L", "L">>, <<"a">>,
             <<"n", "o", "n", "e">>, <<"f", "i", "r", "s", "t", "s">>,
             <<"f", "a", "l", "l">>}}

\* A direct call guesses_to_compute(calculate_guesses, enumerate_from, n).
CallGuesses ==
    /\ pc = "idle"
    /\ call = NoCall
    /\ \E g \in GuessInputs, enumerate_from \in 0..MaxEnum,
          len_geometries \in 0..MaxFrames :
         \E r \in {guesses_to_compute(g, enumerate_from, len_geometries)} :
            call' = [fn |-> "guesses_to_compute",
                     args |-> [calculate_guesses |-> g,
                               enumerate_from |-> enumerate_from,
                               len_geometries |-> len_geometries],
                     err |-> r.err,
                     ret |-> r.val]
    /\ UNCHANGED coupling_vars

\* join(tempfile.gettempdir(), getpass.getuser(), config.project_name)
DefaultScratch == Path(<<"tmp", "user", "project_name">>)

\* Paths given in the configuration.
GivenScratch == Path(<<"scratch">>)
GivenHDF5 == Path(<<"data", "given.hdf5">>)

\* split_file_geometries(path_traj_xyz): the frames of the trajectory file.
split_file_geometries(nframes) == [k \in 1..nframes |-> k - 1]

\* create_point_folder(scratch_path, len_geometries, enumerate_from): one
\* folder per point, numbered from enumerate_from on.
create_point_folder(scratch_path, len_geometries, enumerate_from) ==
    [k \in 1..len_geometries |->
        Path(scratch_path.parts \o <<"point", enumerate_from + (k - 1)>>)]

\* save_basis_to_hdf5, lines 80-91: h5py.File(config["path_hdf5"]) raises
\* TypeError on None; else the file holds cp2k/basis afterwards.  `files` is
\* the set of the HDF5 files that hold the basis.
save_basis_to_hdf5(config, files) ==
    IF config.path_hdf5 = PyNone
    THEN [err |-> "TypeError", files |-> files]
    ELSE [err |-> "none", files |-> files \cup {config.path_hdf5}]

\* initialize, lines 27-77, on a trajectory of nframes frames.  The local
\* path_hdf5 (lines 47-51) is only named in the warning, kept as `warned`.
initialize(config, nframes, files) ==
    LET scratch_path == IF config.scratch_path = PyNone
                        THEN DefaultScratch
                        ELSE config.scratch_path
        path_hdf5 == IF config.path_hdf5 = PyNone
                     THEN join(scratch_path, "quantum.hdf5")
                     ELSE config.path_hdf5
        geometries_ == split_file_geometries(nframes)
        enumerate_from == config.enumerate_from
        len_geometries == Len(geometries_)
        guess == guesses_to_compute(config.calculate_guesses, enumerate_from,
                                    len_geometries)
        config_ == [workdir |-> scratch_path,
                    geometries |-> geometries_,
                    folders |-> create_point_folder(
                                    scratch_path, len_geometries, enumerate_from),
                    calc_new_wf_guess_on_points |-> guess.val] @@ config
        saved == save_basis_to_hdf5(config_, files)
        failed(e) == [err |-> e, val |-> PyNone, files |-> files,
                      warned |-> path_hdf5]
    IN  IF guess.err # "none" THEN failed(guess.err)
        ELSE IF ~PyIndexOk(geometries_, 0) THEN failed("IndexError")
        ELSE IF saved.err # "none" THEN failed(saved.err)
        ELSE [err |-> "none", val |-> config_, files |-> saved.files,
              warned |-> path_hdf5]

\* A call initialize(config).
CallInitialize ==
    /\ pc = "idle"
    /\ call = NoCall
    /\ \E scratch_path \in {PyNone, GivenScratch},
          path_hdf5 \in {PyNone, GivenHDF5},
          g \in GuessInputs,
          enumerate_from \in 0..MaxEnum,
          nframes \in 0..MaxFrames,
          files \in SUBSET {GivenHDF5} :
         LET config == [scratch_path |-> scratch_path,
                        path_hdf5 |-> path_hdf5,
                        calculate_guesses |-> g,
                        enumerate_from |-> enumerate_from]
         IN  \E r \in {initialize(config, nframes, files)} :
               call' = [fn |-> "initialize",
                        args |-> [config |-> config, nframes |-> nframes,
                                  files |-> files],
                        err |-> r.err,
                        ret |-> r.val,
                        files |-> r.files,
                        warned |-> r.warned]
    /\ UNCHANGED coupling_vars

\* An XYZ trajectory of nPoints frames of numat atoms: numat + 2 lines per
\* frame, each line known by its frame and its place in the frame.
XYZFile(nPoints, numat) ==
    [n \in 1..(nPoints * (numat + 2)) |->
        [frame |-> ((n - 1) \div (numat + 2)) + 1,
         line |-> ((n - 1) % (numat + 2)) + 1,
         numat |-> numat]]

\* wc -l: the number of newline characters of the file.
wc_l(file, terminated) == IF terminated THEN Len(file) ELSE Len(file) - 1

\* split -a 1: the suffixes are the single letters a..z.
SuffixLetters == 26

\* split -l n file prefix: consecutive pieces of n lines, the last one with
\* the lines that remain.
split_l(file, n) ==
    [b \in 1..((Len(file) + n - 1) \div n) |->
        SubSeq(file, (b - 1) * n + 1, Min(b * n, Len(file)))]

\* The orders in which os.listdir() may give m names: any order.
DirOrders(m) == IF m = 0 THEN {<<>>} ELSE Permutations(1..m)

\* The chunk files of the working directory once `written` chunks are under
\* pathOut and chunk_xyz_1..earlier were there before the call (split
\* removes nothing): chunk k is named by its suffix letter number k.
ListedChunks(written, pathOut, earlier) ==
    IF pathOut = "." /\ written > earlier THEN written ELSE earlier

\* split_trajectory, lines 126-162: the chunk files written under pathOut
\* (blocks) and, in the order `order` of the directory, the names that
\* os.listdir() of the working directory gives.  When the single-letter
\* suffixes run out, split has written the first SuffixLetters chunks and
\* its error message makes the function raise.
split_trajectory(file, terminated, nBlocks, pathOut, earlier, order) ==
    LET numat == file[1].numat
        wc == wc_l(file, terminated)
        lines == IF (wc % (numat + 2)) # 0 THEN wc + 1 ELSE wc
        nPoints == lines \div (numat + 2)
        nChunks == (nPoints + nBlocks - 1) \div nBlocks
        lines_per_block == nChunks * (numat + 2)
        chunks == split_l(file, lines_per_block)
    IN  IF Len(chunks) > SuffixLetters
        THEN [err |-> "RuntimeError",
              blocks |-> SubSeq(chunks, 1, SuffixLetters),
              val |-> <<>>]
        ELSE [err |-> "none",
              blocks |-> chunks,
              val |-> [k \in 1..ListedChunks(Len(chunks), pathOut, earlier)
                          |-> <<"chunk_xyz", order[k]>>]]

\* The number of chunks split writes for the file and nBlocks.
ChunkCount(file, terminated, nBlocks) ==
    Len(split_trajectory(file, terminated, nBlocks, "out", 0, <<>>).blocks)

\* A call split_trajectory(path, nBlocks, pathOut) in a working directory
\* that holds the chunks chunk_xyz_1..earlier of an earlier call.
CallSplitTrajectory ==
    /\ pc = "idle"
    /\ call = NoCall
    /\ \E nPoints \in 1..MaxFrames, numat \in 1..MaxAtoms,
          nBlocks \in 1..(MaxFrames + 1), terminated \in BOOLEAN,
          pathOut \in {".", "out"}, earlier \in 0..MaxFrames :
         \E order \in DirOrders(ListedChunks(
                ChunkCount(XYZFile(nPoints, numat), terminated, nBlocks),
                pathOut, earlier)) :
           \E r \in {split_trajectory(XYZFile(nPoints, numat), terminated,
                                      nBlocks, pathOut, earlier, order)} :
              call' = [fn |-> "split_trajectory",
                       args |-> [file |-> XYZFile(nPoints, numat),
                                 terminated |-> terminated,
                                 nBlocks |-> nBlocks,
                                 pathOut |-> pathOut,
                                 earlier |-> earlier],
                       err |-> r.err,
                       ret |-> r.val,
                       blocks |-> r.blocks]
    /\ UNCHANGED coupling_vars

NextCalls ==
    \/ CallCalculateOverlap
    \/ CallWorkflowOverlap
    \/ CallGuesses
    \/ CallInitialize
    \/ CallSplitTrajectory

SpecCalls == Init /\ [][NextCalls]_vars

(***************************************************************************)
(* Reference notions used by the properties.                               *)
(***************************************************************************)
InCoupling == pc \in {"map", "project", "combine", "returned", "raised"}

\* Number of CGFs of the atoms before atom k: where the block of atom k starts.
BlockOffset(atoms, cgfs, k) ==
    SumSeq([j \in 1..(k - 1) |-> Len(cgfs[atoms[j].symbol])])

\* The atom whose block [offset, offset + |basis|) contains global index i.
BlockOwner(atoms, cgfs, i) ==
    CHOOSE k \in 1..Len(atoms) :
        /\ BlockOffset(atoms, cgfs, k) <= i
        /\ i < BlockOffset(atoms, cgfs, k) + Len(cgfs[atoms[k].symbol])

\* The matrix calcOverlapMtx is to return for the pair (molA, molB): row i
\* is the row of task i, then the transformation.
OverlapOf(molA, molB) ==
    CHOOSE m \in
        {Sphericals(trans_mtx, raw).val :
            raw \in {[k \in 1..dim |->
                        apply_nested(dictCGFs, molA, molB, dim, k - 1, 0).row]}} :
        TRUE

\* Entry (i, j) of C0^T * S * C1, written out as a double sum.
MOProduct(C0, S, C1, i, j) ==
    SumSeq([u \in 1..Len(S) |->
        SumSeq([v \in 1..Len(S) |-> C0[u][i] * S[u][v] * C1[v][j]])])

AtRest == geometries[1] = geometries[2] /\ geometries[2] = geometries[3]

(***************************************************************************)
(* C1: the matrix returned by calculateCoupling3Points for dt > 0 is       *)
(* anti-symmetric, M[i][j] = -M[j][i] for all i, j, so its diagonal is 0.  *)
(***************************************************************************)
C1_CouplingAntiSymmetric ==
    (pc = "returned" /\ dt > 0) =>
        /\ Len(ret.num) = NMO
        /\ \A i \in 1..NMO, j \in 1..NMO : ret.num[i][j] = 0 - ret.num[j][i]
        /\ \A i \in 1..NMO : ret.num[i][i] = 0

C1_Witness ==
    /\ pc = "returned"
    /\ dt > 0
    /\ geometries[1] # geometries[2]
    /\ ret.num[1][2] # 0

(***************************************************************************)
(* C2: for every global index i in [0, dim), lookup_cgf returns the CGF at *)
(* local position (i - block offset of the owning atom) of the basis of    *)
(* the owning atom's own symbol.                                           *)
(***************************************************************************)
C2_LookupReturnsOwnCGF ==
    (pc = "lookup_done" /\ arg_i >= 0
        /\ arg_i < DimOf(dictCGFs, geometries[1])) =>
        LET atoms == geometries[1]
            k == BlockOwner(atoms, dictCGFs, arg_i)
        IN  /\ found.err = "none"
            /\ found.cgf = dictCGFs[atoms[k].symbol]
                              [arg_i - BlockOffset(atoms, dictCGFs, k) + 1]

(***************************************************************************)
(* C3: for every global index i in [0, dim), lookup_cgf returns the        *)
(* coordinate of the atom whose contiguous block contains i.               *)
(***************************************************************************)
C3_LookupReturnsOwnerCoordinate ==
    (pc = "lookup_done" /\ arg_i >= 0
        /\ arg_i < DimOf(dictCGFs, geometries[1])) =>
        LET atoms == geometries[1]
        IN  /\ found.err = "none"
            /\ found.xyz = atoms[BlockOwner(atoms, dictCGFs, arg_i)].xyz

(***************************************************************************)
(* C4: with no transformation matrix and mol0 = mol1, calcOverlapMtx       *)
(* returns a symmetric matrix, S[i][j] = S[j][i].                          *)
(***************************************************************************)
C4_SameGeometrySymmetric ==
    (suv_0 # <<>> /\ trans_mtx = None /\ geometries[1] = geometries[2]) =>
        \A i \in 1..dim, j \in 1..dim : suv_0[i][j] = suv_0[j][i]

(***************************************************************************)
(* C5: calculateCoupling3Points returns                                    *)
(* [3*(Sji_t1 - Sij_t1) + (Sij_t0 - Sji_t0)] / (4*dt) with                 *)
(* Sji_t0 = Cprev^T*S0*Ccurr, Sij_t0 = Ccurr^T*S0^T*Cprev,                 *)
(* Sji_t1 = Ccurr^T*S1*Cnext, Sij_t1 = Cnext^T*S1^T*Ccurr, S0 the overlap  *)
(* of (geomPrev, geomCurr) and S1 the overlap of (geomCurr, geomNext).     *)
(***************************************************************************)
C5_ThreePointFormula ==
    (pc = "returned") =>
        LET Cprev == coefficients[1]
            Ccurr == coefficients[2]
            Cnext == coefficients[3]
        IN  \A S0 \in {OverlapOf(geometries[1], geometries[2])},
               S1 \in {OverlapOf(geometries[2], geometries[3])} :
              \A S0T \in {Transpose(S0)}, S1T \in {Transpose(S1)} :
                /\ ret.den = 4 * dt
                /\ \A i \in 1..NMO, j \in 1..NMO :
                     ret.num[i][j] =
                         3 * (MOProduct(Ccurr, S1, Cnext, i, j)
                                - MOProduct(Cnext, S1T, Ccurr, i, j))
                           + (MOProduct(Ccurr, S0T, Cprev, i, j)
                                - MOProduct(Cprev, S0, Ccurr, i, j))

C5_Witness ==
    /\ pc = "returned"
    /\ dt = MaxDt
    /\ trans_mtx # None
    /\ coefficients[1] # coefficients[2]
    /\ geometries[2] # geometries[3]
    /\ ret.num[2][1] # 0

(***************************************************************************)
(* C6: with three identical geometries and three identical MO coefficient  *)
(* matrices the returned coupling matrix is all zeros, for every dt > 0.   *)
(***************************************************************************)
C6_ZeroDisplacementZeroCoupling ==
    (pc = "returned" /\ dt > 0 /\ AtRest
        /\ coefficients[1] = coefficients[2]
        /\ coefficients[2] = coefficients[3]) =>
        \A i \in 1..NMO, j \in 1..NMO : ret.num[i][j] = 0

(***************************************************************************)
(* C7: for every dt <= 0 calculateCoupling3Points raises an error and      *)
(* returns no coupling matrix.                                             *)
(***************************************************************************)
C7_NonPositiveDtRejected ==
    (InCoupling /\ dt <= 0) => (pc # "returned" /\ ret = NoCoupling)

(***************************************************************************)
(* C8: when an MO coefficient matrix has a row count different from dim,   *)
(* the error is raised before any overlap matrix row is computed.          *)
(***************************************************************************)
C8_MismatchRaisedBeforeRows ==
    (InCoupling /\ \E f \in 1..3 : NRows(coefficients[f]) # dim) =>
        /\ suv_0 = <<>>
        /\ \A k \in 1..Len(results) : results[k] = <<>>

(***************************************************************************)
(* C9: for every global index i outside [0, dim), i < 0 as well as         *)
(* i >= dim, lookup_cgf raises an error and returns no pair.               *)
(***************************************************************************)
C9_OutOfRangeRaises ==
    (pc = "lookup_done"
        /\ (arg_i < 0 \/ arg_i >= DimOf(dictCGFs, geometries[1]))) =>
        found.err # "none"

\* Some atom of some geometry of the call is of an element without basis.
HasUnknown ==
    \E f \in 1..Len(geometries) : ~KnownSymbols(dictCGFs, geometries[f])

\* C11: a call of calculateCoupling3Points in which some atom of some
\* geometry has a symbol that is not a key of the basis-set mapping never
\* gets past the overlap builds: it is still building or it has raised, no
\* projection and no coupling matrix exists, and the build that reads the
\* geometry with the unknown atom returns no overlap matrix.
C11_UnknownSymbolFails ==
    (InCoupling /\ HasUnknown) =>
        /\ pc \in {"map", "raised"}
        /\ suv_1 = <<>>
        /\ mtx = <<>>
        /\ ret = NoCoupling
        /\ ~(KnownSymbols(dictCGFs, geometries[1])
               /\ KnownSymbols(dictCGFs, geometries[2])) => suv_0 = <<>>
        /\ ~KnownSymbols(dictCGFs, geometries[1]) => err = "KeyError"

\* The unknown atom is the last atom of the last geometry, and the call has
\* raised after the first build returned its matrix.
C11_Witness ==
    /\ pc = "raised"
    /\ Len(geometries) = 3
    /\ Len(geometries[3]) >= 2
    /\ geometries[3][Len(geometries[3])].symbol = Unknown
    /\ geometries[3][1].symbol # Unknown
    /\ suv_0 # <<>>
    /\ err = "KeyError"

\* C12: when the second geometry of the first calcOverlapMtx of the call has
\* a total number of basis functions different from dim, the build raises
\* at once: no row is stored and no matrix is returned (so no returned row
\* has an entry that was never assigned).
C12_BasisCountMismatchRaises ==
    (InCoupling /\ ~HasUnknown /\ DimOf(dictCGFs, geometries[2]) # dim) =>
        /\ suv_0 = <<>>
        /\ (pc = "map" /\ build = 0) =>
               \A k \in 1..Len(results) : results[k] = <<>>

\* The matrix C0^T * S * C1 written out entry by entry.
MOMatrix(C0, S, C1) ==
    [i \in 1..NCols(C0) |-> [j \in 1..NCols(C1) |-> MOProduct(C0, S, C1, i, j)]]

\* C13: calculate_overlap(S, C0, C1) returns the matrix C0^T * S * C1 of the
\* arguments it was given, and when C0 = C1 = C with C^T * S * C the identity
\* it returns the identity matrix.
C13_OverlapOfOrthonormalIsIdentity ==
    call.fn = "calculate_overlap" =>
        /\ call.err = "none"
        /\ call.ret = MOMatrix(call.args.css0, call.args.suv, call.args.css1)
        /\ (/\ call.args.css0 = call.args.css1
            /\ MOMatrix(call.args.css0, call.args.suv, call.args.css0)
                 = Identity(NMO))
              => call.ret = Identity(NMO)

\* Orbitals that are orthonormal in a metric other than the identity.
C13_Witness ==
    /\ call.fn = "calculate_overlap"
    /\ call.args.css0 = call.args.css1
    /\ call.args.suv # Identity(NMO)
    /\ call.ret = Identity(NMO)

\* No entry of the matrix m is nan.
AllFinite(m) ==
    \A r \in 1..Len(m) : \A c \in 1..Len(m[r]) : m[r][c] # NaN

\* The basis of some element has a function without finite overlaps.
HasNonFinite ==
    \E s \in DOMAIN dictCGFs :
        \E k \in 1..Len(dictCGFs[s]) : dictCGFs[s][k] = NonFiniteCGF

\* C14: every matrix that calcOverlapMtx or calculateCoupling3Points returns
\* has only finite entries, and when the primitive overlap of some pair is
\* not finite the call returns no matrix at all.
C14_NonFiniteSurfaced ==
    InCoupling =>
        /\ AllFinite(suv_0) /\ AllFinite(suv_1) /\ AllFinite(ret.num)
        /\ HasNonFinite => (suv_0 = <<>> /\ suv_1 = <<>> /\ ret = NoCoupling)

\* Both matrices of folder overlaps_k are in the HDF5 file.
PairStored(stored, k) ==
    /\ <<"project_name", "overlaps", k, "mtx_sji_t0">> \in stored
    /\ <<"project_name", "overlaps", k, "mtx_sij_t0">> \in stored

\* C15: for N geometries the workflow calculate_overlap yields N - 1 entries;
\* entry i belongs to the pair of geometries (i, i + 1) and to the folder
\* overlaps_{i + enumerate_from}: it is the promise of lazy_overlaps for that
\* pair exactly when the folder's two matrices are not both in the HDF5
\* file, and otherwise the two stored paths, with nothing scheduled.
C15_OneEntryPerConsecutivePair ==
    call.fn = "workflow_calculate_overlap" =>
        LET geoms == call.args.geometries
            from == call.args.enumerate_from
        IN  /\ Len(call.ret) = Len(geoms) - 1
            /\ \A i \in 0..(Len(geoms) - 2) :
                 LET e == call.ret[i + 1]
                 IN  IF PairStored(call.args.stored, i + from)
                     THEN /\ e.kind = "paths"
                          /\ e.paths =
                               << <<"project_name", "overlaps", i + from,
                                    "mtx_sji_t0">>,
                                  <<"project_name", "overlaps", i + from,
                                    "mtx_sij_t0">> >>
                     ELSE /\ e.kind = "promise"
                          /\ e.i = i
                          /\ e.molecules = <<geoms[i + 1], geoms[i + 2]>>
                          /\ e.enumerate_from = from

\* A trajectory numbered from 1 on whose first pair is stored and whose last
\* pair is not, although a folder with the last pair's own index is stored.
C15_Witness ==
    /\ call.fn = "workflow_calculate_overlap"
    /\ Len(call.args.geometries) = MaxFrames
    /\ call.args.enumerate_from = 1
    /\ PairStored(call.args.stored, 1)
    /\ PairStored(call.args.stored, MaxFrames - 2)
    /\ ~PairStored(call.args.stored, MaxFrames - 1)
    /\ call.ret[1].kind = "paths"
    /\ call.ret[MaxFrames - 1].kind = "promise"

\* The string is 'first' (or 'all') up to the case of its letters.
IsFirst(g) ==
    g # PyNone /\ str_lower(g.chars) = <<"f", "i", "r", "s", "t">>
IsAll(g) ==
    g # PyNone /\ str_lower(g.chars) = <<"a", "l", "l">>

\* C17: guesses_to_compute returns a list for every input: [] for None,
\* [enumerate_from] for 'first' and only for it, the len_geometries frame
\* numbers from enumerate_from on for 'all' and only for it (where the two
\* lists differ from each other and from []), and every number returned lies
\* in [enumerate_from, enumerate_from + len_geometries).
C17_GuessesByKeyword ==
    call.fn = "guesses_to_compute" =>
        LET g == call.args.calculate_guesses
            from == call.args.enumerate_from
            n == call.args.len_geometries
            every == [i \in 1..n |-> from + (i - 1)]
        IN  /\ call.err = "none"
            /\ g = PyNone => call.ret = <<>>
            /\ IsFirst(g) => call.ret = <<from>>
            /\ IsAll(g) => call.ret = every
            /\ (call.ret = <<from>> /\ n # 1) => IsFirst(g)
            /\ (call.ret = every /\ n > 1) => IsAll(g)
            /\ \A k \in 1..Len(call.ret) :
                   call.ret[k] >= from /\ call.ret[k] < from + n

\* C16: a call of initialize whose configuration has path_hdf5 None (and a
\* keyword for the guesses and a trajectory that is not empty) returns the
\* configuration with <scratch_path>/quantum.hdf5 as its HDF5 path, and that
\* file holds the basis set.
C16_DefaultHDF5PathUsed ==
    (/\ call.fn = "initialize"
     /\ call.args.config.path_hdf5 = PyNone
     /\ call.args.nframes >= 1
     /\ \/ call.args.config.calculate_guesses = PyNone
        \/ IsFirst(call.args.config.calculate_guesses)
        \/ IsAll(call.args.config.calculate_guesses)) =>
        LET scratch == IF call.args.config.scratch_path = PyNone
                       THEN <<"tmp", "user", "project_name">>
                       ELSE call.args.config.scratch_path.parts
            default == Path(scratch \o <<"quantum.hdf5">>)
        IN  /\ call.err = "none"
            /\ call.ret.path_hdf5 = default
            /\ default \in call.files

\* The lines of the first n blocks, one after the other.
RECURSIVE Concat(_, _)
Concat(blocks, n) ==
    IF n = 0 THEN <<>> ELSE Concat(blocks, n - 1) \o blocks[n]

\* C18: for a trajectory of nPoints frames and 1 <= nBlocks <= nPoints,
\* split_trajectory writes exactly nBlocks blocks, each of a whole number of
\* frames, which together are the file: every frame once and in order.
C18_SplitIntoNBlocks ==
    (/\ call.fn = "split_trajectory"
     /\ call.args.nBlocks
          <= Len(call.args.file) \div (call.args.file[1].numat + 2)) =>
        /\ call.err = "none"
        /\ Len(call.blocks) = call.args.nBlocks
        /\ \A b \in 1..Len(call.blocks) :
             /\ Len(call.blocks[b]) > 0
             /\ Len(call.blocks[b]) % (call.args.file[1].numat + 2) = 0
        /\ Concat(call.blocks, Len(call.blocks)) = call.args.file

====
